---- MODULE Spec2Model ----
(***************************************************************************)
(* Model of the KursChern server (src/server.cpp, src/server.h, main.cpp). *)
(*                                                                         *)
(* One process, one control flow: Server::start loads the credential file, *)
(* opens the listening socket and then serves one connection at a time:    *)
(* accept -> handleClient -> authenticate -> processVectors -> close.      *)
(*                                                                         *)
(* Text is a sequence of byte values (0..255).  A blocking recv/send is a  *)
(* step of the model; what the peer and the kernel deliver (bytes, a short *)
(* count, 0, -1, SIGPIPE) is chosen with \E from the sets below.           *)
(***************************************************************************)
EXTENDS Integers, Sequences, FiniteSets, TLC

(***************************************************************************)
(* Bounds of the model                                                     *)
(***************************************************************************)
MaxConns == 2      \* connections accepted in one run
MaxCount == 2      \* largest vector count a peer declares
MaxVecSize == 1    \* largest vector size a peer declares and fills

(***************************************************************************)
(* Text helpers                                                            *)
(***************************************************************************)

\* length of the C string stored in a buffer: bytes before the first NUL
strlen(b) ==
  IF \E k \in 1..Len(b) : b[k] = 0
    THEN (CHOOSE k \in 1..Len(b) : b[k] = 0 /\ \A j \in 1..(k-1) : b[j] # 0) - 1
    ELSE Len(b)

\* std::string(const char*): the buffer up to, not including, the first NUL.
\* The code writes buffer[bytesRead] = '\0' and then builds the string from
\* the char pointer, so a NUL among the received bytes ends the string.
CString(b) == SubSeq(b, 1, strlen(b))

\* std::toupper in the "C" locale
toupper(c) == IF c \in 97..122 THEN c - 32 ELSE c

\* for (auto& c : s) c = std::toupper(c);
ToUpperStr(s) == [k \in 1..Len(s) |-> toupper(s[k])]

\* one digit as std::hex prints it (lowercase)
HexDigit(n) == IF n < 10 THEN 48 + n ELSE 87 + n

\* the hex digits of a value below 2^31, most significant first, no padding
RECURSIVE HexDigits(_)
HexDigits(v) == IF v < 16 THEN <<HexDigit(v)>>
                ELSE Append(HexDigits(v \div 16), HexDigit(v % 16))

\* std::setfill('0') << std::setw(width): pad on the left, never cut
PadLeft(d, width) ==
  IF Len(d) >= width THEN d
  ELSE [k \in 1..(width - Len(d)) |-> 48] \o d

\* ss << std::hex << std::setfill('0') << std::setw(width) << v
HexField(v, width) == PadLeft(HexDigits(v), width)

RECURSIVE HexOfBytes(_)
HexOfBytes(bytes) ==
  IF bytes = <<>> THEN <<>>
  ELSE HexField(Head(bytes), 2) \o HexOfBytes(Tail(bytes))

(***************************************************************************)
(* Hash primitive and salt generator                                       *)
(***************************************************************************)
DigestBytes == 28      \* SHA-224 digest length in bytes

RECURSIVE Mix(_, _)
Mix(input, h) ==
  IF input = <<>> THEN h
  ELSE Mix(Tail(input), (h * 131 + Head(input) + 1) % 65521)

\* The digest the EVP calls leave in digest[0..digestLength-1].  SHA-224 is
\* library code; it is represented by a deterministic function of the whole
\* input that produces 28 bytes and has no collision on the inputs of the
\* model (DigestCollisionFree below).
EVP_Digest(input) ==
  LET h == Mix(input, 7 + Len(input))
  IN  [k \in 1..DigestBytes |-> (h * (2 * k + 1) + (h \div 256) + 89 * k) % 256]

\* outcomes of the EVP call sequence in sha224Hash
EvpOutcomes == {"ok", "ctx_new_failed", "init_failed", "update_failed", "final_failed"}

\* Server::sha224Hash: "" when any EVP call fails, else the digest as
\* lowercase hex, two digits per byte, then upper-cased.
sha224Hash(input, evp) ==
  IF evp # "ok" THEN <<>>
  ELSE ToUpperStr(HexOfBytes(EVP_Digest(input)))

\* A uint64_t is written as its four 16-bit words, most significant first.
\* The values the 64-bit generator may draw in the model:
SaltValues ==
  { <<0, 0, 0, 0>>, <<0, 0, 0, 43981>>, <<4660, 0, 43981, 1>>,
    <<65535, 65535, 65535, 65535>> }

RECURSIVE StripZeros(_)
StripZeros(d) ==
  IF Len(d) > 1 /\ Head(d) = 48 THEN StripZeros(Tail(d)) ELSE d

\* the digits std::hex prints for a uint64_t: no leading zeros
HexDigits64(w) ==
  StripZeros(HexField(w[1], 4) \o HexField(w[2], 4) \o HexField(w[3], 4) \o HexField(w[4], 4))

\* generateSalt with std::setw(16) left out
generateSalt_NoPad(saltValue) == ToUpperStr(HexDigits64(saltValue))

\* Server::generateSalt for the drawn value
generateSalt(saltValue) == ToUpperStr(PadLeft(HexDigits64(saltValue), 16))

(***************************************************************************)
(* Credential store                                                        *)
(***************************************************************************)

\* line.find(':'): 0-based index of the first ':' or -1 (npos)
find_colon(line) ==
  IF \E k \in 1..Len(line) : line[k] = 58
    THEN (CHOOSE k \in 1..Len(line) : line[k] = 58 /\ \A j \in 1..(k-1) : line[j] # 58) - 1
    ELSE -1

\* one iteration of the getline loop with users.insert in place of
\* users[login] = password: an entry already present is kept
LoadLine_KeepFirst(map, line) ==
  LET pos == find_colon(line)
  IN  IF pos # -1 /\ pos > 0 /\ pos < Len(line) - 1
        THEN LET login    == SubSeq(line, 1, pos)
                 password == SubSeq(line, pos + 2, Len(line))
             IN  IF login # <<>> /\ password # <<>> /\ login \notin DOMAIN map
                   THEN [l \in DOMAIN map \cup {login} |->
                           IF l = login THEN password ELSE map[l]]
                   ELSE map
        ELSE map

\* one iteration of the getline loop of loadUserDatabase
LoadLine(map, line) ==
  LET pos == find_colon(line)
  IN  IF pos # -1 /\ pos > 0 /\ pos < Len(line) - 1
        THEN LET login    == SubSeq(line, 1, pos)
                 password == SubSeq(line, pos + 2, Len(line))
             IN  IF login # <<>> /\ password # <<>>
                   THEN [l \in DOMAIN map \cup {login} |->
                           IF l = login THEN password ELSE map[l]]
                   ELSE map
        ELSE map

RECURSIVE LoadLines(_, _)
LoadLines(map, lines) ==
  IF lines = <<>> THEN map
  ELSE LoadLines(LoadLine(map, Head(lines)), Tail(lines))

\* loadUserDatabase with the test of file.is_open() left out
loadUserDatabase_NoOpenCheck(f) == LoadLines(<<>>, f.lines)

\* Server::loadUserDatabase on a freshly constructed server: a file that
\* cannot be opened leaves users empty.
loadUserDatabase(f) ==
  IF ~f.is_open THEN <<>> ELSE LoadLines(<<>>, f.lines)

\* no file at userDbPath
NoFile == [is_open |-> FALSE, lines |-> <<>>]

\* credential files of the model ("a:p" is <<97, 58, 112>>): one that exists
\* and cannot be opened, one with two entries, and one with lines the loader
\* skips, a repeated login and a second ':'
DbFiles ==
  { [is_open |-> FALSE, lines |-> << <<97, 58, 112>> >>],
    [is_open |-> TRUE,  lines |-> << <<97, 58, 112>>, <<98, 58, 113>> >>],
    [is_open |-> TRUE,  lines |-> << <<97, 98>>, <<58, 112>>, <<97, 58>>,
                                     <<97, 58, 112>>, <<97, 58, 113, 58, 112>> >>] }

(***************************************************************************)
(* Saturating sum of squares                                               *)
(***************************************************************************)

\* static_cast<int16_t>(x) of a 64-bit value
narrow16(x) == ((x + 32768) % 65536) - 32768

\* the for loop of calculateSumOfSquares from element k with running sum
RECURSIVE SumLoop(_, _, _)
SumLoop(vector, k, sum) ==
  IF k > Len(vector) THEN narrow16(sum)
  ELSE LET s == sum + vector[k] * vector[k]
       IN  IF s > 32767 THEN 32767
           ELSE IF s < -32768 THEN -32768
           ELSE SumLoop(vector, k + 1, s)

\* the loop with the square taken in 16 bits (the widening casts left out)
RECURSIVE SumLoop16(_, _, _)
SumLoop16(vector, k, sum) ==
  IF k > Len(vector) THEN narrow16(sum)
  ELSE LET s == sum + narrow16(vector[k] * vector[k])
       IN  IF s > 32767 THEN 32767
           ELSE IF s < -32768 THEN -32768
           ELSE SumLoop16(vector, k + 1, s)

calculateSumOfSquares_square16(vector) ==
  IF vector = <<>> THEN 0 ELSE SumLoop16(vector, 1, 0)

\* the loop with the running sum kept in an int16_t
RECURSIVE SumLoopSum16(_, _, _)
SumLoopSum16(vector, k, sum) ==
  IF k > Len(vector) THEN narrow16(sum)
  ELSE LET s == narrow16(sum + vector[k] * vector[k])
       IN  IF s > 32767 THEN 32767
           ELSE IF s < -32768 THEN -32768
           ELSE SumLoopSum16(vector, k + 1, s)

calculateSumOfSquares_sum16(vector) ==
  IF vector = <<>> THEN 0 ELSE SumLoopSum16(vector, 1, 0)

\* the way the for loop of calculateSumOfSquares goes from element k: the
\* running sums after each `sum += square`, the return it leaves by ("upper"
\* at line 228, "lower" at line 231, "end" at line 235) and the sum there
RECURSIVE SumPath(_, _, _, _)
SumPath(vector, k, sum, sums) ==
  IF k > Len(vector) THEN [exit |-> "end", sum |-> sum, sums |-> sums]
  ELSE LET s == sum + vector[k] * vector[k]
       IN  IF s > 32767 THEN [exit |-> "upper", sum |-> s, sums |-> Append(sums, s)]
           ELSE IF s < -32768 THEN [exit |-> "lower", sum |-> s, sums |-> Append(sums, s)]
           ELSE SumPath(vector, k + 1, s, Append(sums, s))

\* Server::calculateSumOfSquares
calculateSumOfSquares(vector) ==
  IF vector = <<>> THEN 0 ELSE SumLoop(vector, 1, 0)

\* the int16_t stored in two received bytes, in the host's (little-endian)
\* byte order: the code reads the bytes straight into the vector's storage
int16_of(lo, hi) == narrow16(lo + 256 * hi)

DecodeVector(bytes) ==
  [k \in 1..(Len(bytes) \div 2) |-> int16_of(bytes[2 * k - 1], bytes[2 * k])]

(***************************************************************************)
(* State                                                                   *)
(***************************************************************************)
VARIABLES
  file,    \* the credential file at userDbPath: whether it can be opened, and
           \* its lines
  started, \* how Server::start went: "none" before it ran, then "ok" or the
           \* call that failed
  pc,      \* where the process is: "start", "accept", a blocking recv of the
           \* session ("login", "response", "count", "size", "data"), a return
           \* into handleClient ("auth_return", "pv_return"), or an end of the
           \* process ("exit1", "killed_SIGPIPE", "terminate_bad_alloc")
  users,   \* Server::users, login -> password
  conn,    \* number of connections accepted so far; the current socket's id
  open,    \* client sockets accepted and not yet closed
  closes,  \* close() calls made on the current client socket
  auth,    \* the session's handshake state: "none", "pending", "ok", "failed"
  io,      \* the recv/send calls made on the current client socket, in
           \* order: which call, for what, and whether it did what was asked
  last,    \* the most recent of those calls in full: length asked, value
           \* returned, and for a result the int16_t sent
  au,      \* locals of authenticate
  pv,      \* locals of processVectors; vectorSize and buf hold the vector of
           \* the current iteration, or of the last one until the next size is read
  calc     \* argument and result of a direct call of calculateSumOfSquares or
           \* sha224Hash through its test wrapper

vars == <<file, started, pc, users, conn, open, closes, auth, io, last, au, pv, calc>>

NoAuth == [rxLogin |-> <<>>, login |-> <<>>, salt |-> <<>>, rxResp |-> <<>>,
           receivedHash |-> <<>>, computedHash |-> <<>>, ret |-> "none"]

NoPv == [numVectors |-> 0, i |-> 0, vectorSize |-> 0, buf |-> <<>>]

NoCalc == [vector |-> <<>>, result |-> 0, done |-> FALSE]

\* a call on the client socket.  A recv of a 4-byte field does what was
\* asked when it returns 4, another recv when it returns any byte, a send
\* when it accepts every byte.
Recv(what, len, ret) ==
  [op |-> "recv", what |-> what, len |-> len, ret |-> ret, val |-> 0,
   ok |-> IF what \in {"count", "size"} THEN ret = len ELSE ret > 0]
Send(what, len, ret, val) ==
  [op |-> "send", what |-> what, len |-> len, ret |-> ret, val |-> val,
   ok |-> ret = len]

NoCall == [op |-> "none", what |-> "none", len |-> 0, ret |-> 0, val |-> 0, ok |-> FALSE]

\* the calls of one step are added to io and the last of them is kept in full
Did(calls) ==
  /\ io' = io \o [k \in 1..Len(calls) |->
                    [op |-> calls[k].op, what |-> calls[k].what, ok |-> calls[k].ok]]
  /\ last' = calls[Len(calls)]

(***************************************************************************)
(* What the peer and the kernel may deliver                                *)
(***************************************************************************)

\* recv: connection closed by the peer (0) or an error (-1)
RecvFail == {0, -1}

\* send(fd, buf, n, 0): all n bytes accepted, fewer accepted, an error
\* return, or SIGPIPE.  The code passes no MSG_NOSIGNAL and installs no
\* handler, so a write to a connection the peer has reset delivers SIGPIPE,
\* whose default action ends the process.
SendOutcomes == {"full", "short", "error", "SIGPIPE"}

SendRet(o, n) == IF o = "full" THEN n ELSE IF o = "short" THEN n - 1 ELSE -1

\* byte sequences the login recv may return (at most 255 bytes fit):
\* "a", "b", "c", "ab", "a" NUL "b", NUL "a"
LoginInputs == { <<97>>, <<98>>, <<99>>, <<97, 98>>, <<97, 0, 98>>, <<0, 97>> }

ToLowerStr(s) == [k \in 1..Len(s) |-> IF s[k] \in 65..90 THEN s[k] + 32 ELSE s[k]]

MixedCase(s) == [k \in 1..Len(s) |-> IF k % 2 = 1 /\ s[k] \in 65..90 THEN s[k] + 32 ELSE s[k]]

\* byte sequences the response recv may return, given the salt sent and the
\* stored password: the digest in upper, lower and mixed case, the digest cut
\* short, with one more character, with a NUL and more bytes after it, the
\* digest of another input, a lone NUL, one letter, and the digests that
\* answered the other salts the server can send (responses recorded on
\* another connection)
ResponseInputs(salt, password) ==
  LET d == sha224Hash(salt \o password, "ok")
  IN  { d, ToLowerStr(d), MixedCase(d),
        SubSeq(d, 1, Len(d) - 1), d \o <<48>>, d \o <<0, 120>>,
        sha224Hash(password \o salt, "ok"), <<0>>, <<120>> }
      \cup { sha224Hash(generateSalt(v) \o password, "ok") : v \in SaltValues }

\* bytes of vector payload
DataBytes == {0, 181}

\* the byte sequences of length 1..n over DataBytes
Chunks(n) == UNION { [1..m -> DataBytes] : m \in 1..n }

\* a declared size far beyond what a peer of the model fills (2^31 - 1):
\* std::vector<int16_t>(HugeSize) asks the allocator for 4 GiB
HugeSize == 65536 * 32767 + 65535

\* std::vector<int16_t> vector(vectorSize): the allocation succeeds, or
\* operator new throws std::bad_alloc when the host cannot provide the memory
AllocOutcomes(vectorSize) ==
  IF vectorSize <= MaxVecSize THEN {"ok"} ELSE {"ok", "bad_alloc"}

\* vector counts and sizes a peer declares in the model
Counts == 0..MaxCount
Sizes  == (0..MaxVecSize) \cup {HugeSize}

(***************************************************************************)
(* Server::start and main                                                  *)
(***************************************************************************)
StartOutcomes ==
  {"ok", "log_failed", "socket_failed", "setsockopt_failed", "bind_failed", "listen_failed"}

Init ==
  /\ file \in DbFiles
  /\ started = "none"
  /\ pc = "start"
  /\ users = <<>>
  /\ conn = 0
  /\ open = {}
  /\ closes = 0
  /\ auth = "none"
  /\ io = <<>>
  /\ last = NoCall
  /\ au = NoAuth
  /\ pv = NoPv
  /\ calc = NoCalc

\* Server::start with the value listen returns not tested
Start_ListenUnchecked ==
  /\ pc = "start"
  /\ \E r \in StartOutcomes :
       /\ started' = r
       /\ users' = IF r = "log_failed" THEN users ELSE loadUserDatabase(file)
       /\ pc' = IF r \in {"ok", "listen_failed"} THEN "accept" ELSE "exit1"
  /\ UNCHANGED <<file, conn, open, closes, auth, io, last, au, pv, calc>>

\* Server::start up to the accept loop.  When neither log file opens, start
\* returns false before the credential file is read; a failing socket,
\* setsockopt, bind or listen returns false after it.  main then returns 1.
Start ==
  /\ pc = "start"
  /\ \E r \in StartOutcomes :
       /\ started' = r
       /\ users' = IF r = "log_failed" THEN users ELSE loadUserDatabase(file)
       /\ pc' = IF r = "ok" THEN "accept" ELSE "exit1"
  /\ UNCHANGED <<file, conn, open, closes, auth, io, last, au, pv, calc>>

\* accept() fails: the loop logs and calls accept again
AcceptFails ==
  /\ pc = "accept"
  /\ UNCHANGED vars

\* accept() returns a client socket and handleClient calls authenticate,
\* which blocks in its first recv
Accept ==
  /\ pc = "accept"
  /\ conn < MaxConns
  /\ conn' = conn + 1
  /\ open' = open \cup {conn + 1}
  /\ closes' = 0
  /\ auth' = "pending"
  /\ io' = <<>>
  /\ last' = NoCall
  /\ au' = NoAuth
  /\ pv' = NoPv
  /\ pc' = "login"
  /\ UNCHANGED <<file, started, users, calc>>

(***************************************************************************)
(* Server::authenticate                                                    *)
(***************************************************************************)

\* the process after a send with outcome o, when the code would go on at `next`
AfterSend(o, next) == IF o = "SIGPIPE" THEN "killed_SIGPIPE" ELSE next

\* the value authenticate returns after a send with outcome o, if it returns
Returned(o, r) == IF o = "SIGPIPE" THEN "none" ELSE r

\* the wait for the login given up after a time limit, without a recv having
\* returned
LoginNotReceived_TimeLimit ==
  /\ pc = "login"
  /\ au' = [au EXCEPT !.ret = "false"]
  /\ pc' = "auth_return"
  /\ UNCHANGED <<file, started, users, conn, open, closes, auth, io, last, pv, calc>>

\* recv of the login returned r <= 0
LoginNotReceived ==
  /\ pc = "login"
  /\ \E r \in RecvFail :
       /\ Did(<<Recv("login", 255, r)>>)
       /\ au' = [au EXCEPT !.ret = "false"]
       /\ pc' = "auth_return"
  /\ UNCHANGED <<file, started, users, conn, open, closes, auth, pv, calc>>

\* the key authenticate looks up: std::string login(buffer)
LoginKey(received) == CString(received)

\* recv of the login returned bytes, with the lookup done by users[login],
\* which adds an entry with an empty password for a login it does not find
LoginReceived_Inserts ==
  /\ pc = "login"
  /\ \E b \in LoginInputs, o \in SendOutcomes :
       LET login == LoginKey(b)
           rx    == Recv("login", 255, Len(b))
       IN  IF login \notin DOMAIN users
             THEN /\ Did(<<rx, Send("ERR", 3, SendRet(o, 3), 0)>>)
                  /\ au' = [au EXCEPT !.rxLogin = b, !.login = login,
                                      !.ret = Returned(o, "false")]
                  /\ users' = [l \in DOMAIN users \cup {login} |->
                                 IF l = login THEN <<>> ELSE users[l]]
                  /\ pc' = AfterSend(o, "auth_return")
             ELSE \E saltValue \in SaltValues :
                    /\ Did(<<rx, Send("salt", 16, SendRet(o, 16), 0)>>)
                    /\ au' = [au EXCEPT !.rxLogin = b, !.login = login,
                                        !.salt = generateSalt(saltValue),
                                        !.ret = IF o = "full" THEN "none"
                                                ELSE Returned(o, "false")]
                    /\ users' = users
                    /\ pc' = AfterSend(o, IF o = "full" THEN "response" ELSE "auth_return")
  /\ UNCHANGED <<file, started, conn, open, closes, auth, pv, calc>>

\* recv of the login returned bytes, with the value the send of the salt
\* returns not tested
LoginReceived_SaltUnchecked ==
  /\ pc = "login"
  /\ \E b \in LoginInputs, o \in SendOutcomes :
       LET login == LoginKey(b)
           rx    == Recv("login", 255, Len(b))
       IN  IF login \notin DOMAIN users
             THEN /\ Did(<<rx, Send("ERR", 3, SendRet(o, 3), 0)>>)
                  /\ au' = [au EXCEPT !.rxLogin = b, !.login = login,
                                      !.ret = Returned(o, "false")]
                  /\ pc' = AfterSend(o, "auth_return")
             ELSE \E saltValue \in SaltValues :
                    /\ Did(<<rx, Send("salt", 16, SendRet(o, 16), 0)>>)
                    /\ au' = [au EXCEPT !.rxLogin = b, !.login = login,
                                        !.salt = generateSalt(saltValue)]
                    /\ pc' = AfterSend(o, "response")
  /\ UNCHANGED <<file, started, users, conn, open, closes, auth, pv, calc>>

\* recv of the login returned bytes: identification, then ERR or the salt
LoginReceived ==
  /\ pc = "login"
  /\ \E b \in LoginInputs, o \in SendOutcomes :
       LET login == LoginKey(b)
           rx    == Recv("login", 255, Len(b))
       IN  IF login \notin DOMAIN users
             THEN /\ Did(<<rx, Send("ERR", 3, SendRet(o, 3), 0)>>)
                  /\ au' = [au EXCEPT !.rxLogin = b, !.login = login,
                                      !.ret = Returned(o, "false")]
                  /\ pc' = AfterSend(o, "auth_return")
             ELSE \E saltValue \in SaltValues :
                    /\ Did(<<rx, Send("salt", 16, SendRet(o, 16), 0)>>)
                    /\ au' = [au EXCEPT !.rxLogin = b, !.login = login,
                                        !.salt = generateSalt(saltValue),
                                        !.ret = IF o = "full" THEN "none"
                                                ELSE Returned(o, "false")]
                    /\ pc' = AfterSend(o, IF o = "full" THEN "response" ELSE "auth_return")
  /\ UNCHANGED <<file, started, users, conn, open, closes, auth, pv, calc>>

\* recv of the response returned r <= 0, with ERR written to the peer
ResponseNotReceived_SendsErr ==
  /\ pc = "response"
  /\ \E r \in RecvFail, o \in SendOutcomes :
       /\ Did(<<Recv("response", 255, r), Send("ERR", 3, SendRet(o, 3), 0)>>)
       /\ au' = [au EXCEPT !.ret = Returned(o, "false")]
       /\ pc' = AfterSend(o, "auth_return")
  /\ UNCHANGED <<file, started, users, conn, open, closes, auth, pv, calc>>

\* recv of the response returned r <= 0
ResponseNotReceived ==
  /\ pc = "response"
  /\ \E r \in RecvFail :
       /\ Did(<<Recv("response", 255, r)>>)
       /\ au' = [au EXCEPT !.ret = "false"]
       /\ pc' = "auth_return"
  /\ UNCHANGED <<file, started, users, conn, open, closes, auth, pv, calc>>

\* std::string receivedHash(buffer), upper-cased in place
ReceivedHashNoUpper(received) == CString(received)

ReceivedHash(received) == ToUpperStr(CString(received))

\* recv of the response returned bytes, with the handshake failed when the
\* OK token could not be written in full
ResponseReceived_TokenChecked ==
  /\ pc = "response"
  /\ \E b \in ResponseInputs(au.salt, users[au.login]),
        evp \in EvpOutcomes, o \in SendOutcomes :
       LET password     == users[au.login]
           computedHash == sha224Hash(au.salt \o password, evp)
           receivedHash == ReceivedHash(b)
           rx           == Recv("response", 255, Len(b))
           match        == computedHash = receivedHash
       IN  /\ Did(<< rx, IF match THEN Send("OK", 2, SendRet(o, 2), 0)
                                    ELSE Send("ERR", 3, SendRet(o, 3), 0) >>)
           /\ au' = [au EXCEPT !.rxResp = b, !.receivedHash = receivedHash,
                               !.computedHash = computedHash,
                               !.ret = Returned(o, IF match /\ o = "full"
                                                     THEN "true" ELSE "false")]
           /\ pc' = AfterSend(o, "auth_return")
  /\ UNCHANGED <<file, started, users, conn, open, closes, auth, pv, calc>>

\* recv of the response returned bytes, with the digest computed from a salt
\* generated anew in place of the one that was sent
ResponseReceived_SaltRegenerated ==
  /\ pc = "response"
  /\ \E b \in ResponseInputs(au.salt, users[au.login]),
        evp \in EvpOutcomes, o \in SendOutcomes, saltValue \in SaltValues :
       LET password     == users[au.login]
           computedHash == sha224Hash(generateSalt(saltValue) \o password, evp)
           receivedHash == ReceivedHash(b)
           rx           == Recv("response", 255, Len(b))
           match        == computedHash = receivedHash
       IN  /\ Did(<< rx, IF match THEN Send("OK", 2, SendRet(o, 2), 0)
                                    ELSE Send("ERR", 3, SendRet(o, 3), 0) >>)
           /\ au' = [au EXCEPT !.rxResp = b, !.receivedHash = receivedHash,
                               !.computedHash = computedHash,
                               !.ret = Returned(o, IF match THEN "true" ELSE "false")]
           /\ pc' = AfterSend(o, "auth_return")
  /\ UNCHANGED <<file, started, users, conn, open, closes, auth, pv, calc>>

\* recv of the response returned bytes: verification, then OK or ERR
ResponseReceived ==
  /\ pc = "response"
  /\ \E b \in ResponseInputs(au.salt, users[au.login]),
        evp \in EvpOutcomes, o \in SendOutcomes :
       LET password     == users[au.login]
           computedHash == sha224Hash(au.salt \o password, evp)
           receivedHash == ReceivedHash(b)
           rx           == Recv("response", 255, Len(b))
           match        == computedHash = receivedHash
       IN  /\ Did(<< rx, IF match THEN Send("OK", 2, SendRet(o, 2), 0)
                                    ELSE Send("ERR", 3, SendRet(o, 3), 0) >>)
           /\ au' = [au EXCEPT !.rxResp = b, !.receivedHash = receivedHash,
                               !.computedHash = computedHash,
                               !.ret = Returned(o, IF match THEN "true" ELSE "false")]
           /\ pc' = AfterSend(o, "auth_return")
  /\ UNCHANGED <<file, started, users, conn, open, closes, auth, pv, calc>>

(***************************************************************************)
(* Server::handleClient                                                    *)
(***************************************************************************)

\* handleClient after authenticate returned, with a retry of the handshake
\* on the same socket in place of the close
HandleClientAuth_Retry ==
  /\ pc = "auth_return"
  /\ IF au.ret = "false"
       THEN /\ auth' = "failed"
            /\ pc' = "login"
            /\ UNCHANGED <<open, closes, pv>>
       ELSE /\ auth' = "ok"
            /\ pc' = "count"
            /\ pv' = NoPv
            /\ UNCHANGED <<open, closes>>
  /\ au' = NoAuth
  /\ UNCHANGED <<file, started, users, conn, io, last, calc>>

\* handleClient after authenticate returned, with the close on failure left out
HandleClientAuth_NoClose ==
  /\ pc = "auth_return"
  /\ IF au.ret = "false"
       THEN /\ auth' = "failed"
            /\ pc' = "accept"
            /\ UNCHANGED <<open, closes, pv>>
       ELSE /\ auth' = "ok"
            /\ pc' = "count"
            /\ pv' = NoPv
            /\ UNCHANGED <<open, closes>>
  /\ au' = NoAuth
  /\ UNCHANGED <<file, started, users, conn, io, last, calc>>

\* handleClient after authenticate returned, with the result not tested
HandleClientAuth_NoCheck ==
  /\ pc = "auth_return"
  /\ auth' = IF au.ret = "false" THEN "failed" ELSE "ok"
  /\ pc' = "count"
  /\ pv' = NoPv
  /\ au' = NoAuth
  /\ UNCHANGED <<file, started, users, conn, open, closes, io, last, calc>>

\* handleClient after authenticate returned: on false the socket is closed
\* and handleClient returns to the accept loop; on true processVectors is
\* called and blocks in its first recv
HandleClientAuth ==
  /\ pc = "auth_return"
  /\ IF au.ret = "false"
       THEN /\ auth' = "failed"
            /\ open' = open \ {conn}
            /\ closes' = closes + 1
            /\ pc' = "accept"
            /\ UNCHANGED pv
       ELSE /\ auth' = "ok"
            /\ pc' = "count"
            /\ pv' = NoPv
            /\ UNCHANGED <<open, closes>>
  /\ au' = NoAuth
  /\ UNCHANGED <<file, started, users, conn, io, last, calc>>

\* handleClient after processVectors returned, with the close left out
HandleClientClose_NoClose ==
  /\ pc = "pv_return"
  /\ pc' = "accept"
  /\ pv' = NoPv
  /\ UNCHANGED <<file, started, users, conn, open, closes, auth, io, last, au, calc>>

\* handleClient after processVectors returned: close, back to the accept loop
HandleClientClose ==
  /\ pc = "pv_return"
  /\ open' = open \ {conn}
  /\ closes' = closes + 1
  /\ pc' = "accept"
  /\ pv' = NoPv
  /\ UNCHANGED <<file, started, users, conn, auth, io, last, au, calc>>

(***************************************************************************)
(* Server::processVectors                                                  *)
(***************************************************************************)

\* a recv of a 4-byte field that did not return 4
FieldFail == {-1, 0, 1, 2, 3}

\* recv of the vector count, with the bytes of a short read kept and the rest
\* of the field read by another recv
ReadCount_Retry ==
  /\ pc = "count"
  /\ \/ \E r \in FieldFail :
          /\ Did(<<Recv("count", 4, r)>>)
          /\ pc' = IF r > 0 THEN "count" ELSE "pv_return"
          /\ UNCHANGED pv
     \/ \E n \in Counts :
          /\ Did(<<Recv("count", 4, 4)>>)
          /\ pv' = [pv EXCEPT !.numVectors = n, !.i = 0]
          /\ pc' = IF 0 < n THEN "size" ELSE "pv_return"
  /\ UNCHANGED <<file, started, users, conn, open, closes, auth, au, calc>>

\* recv of the vector count, with the loop body entered once before the
\* count is tested (do ... while)
ReadCount_BodyFirst ==
  /\ pc = "count"
  /\ \/ \E r \in FieldFail :
          /\ Did(<<Recv("count", 4, r)>>)
          /\ pc' = "pv_return"
          /\ UNCHANGED pv
     \/ \E n \in Counts :
          /\ Did(<<Recv("count", 4, 4)>>)
          /\ pv' = [pv EXCEPT !.numVectors = n, !.i = 0]
          /\ pc' = "size"
  /\ UNCHANGED <<file, started, users, conn, open, closes, auth, au, calc>>

\* recv of the vector count
ReadCount ==
  /\ pc = "count"
  /\ \/ \E r \in FieldFail :
          /\ Did(<<Recv("count", 4, r)>>)
          /\ pc' = "pv_return"
          /\ UNCHANGED pv
     \/ \E n \in Counts :
          /\ Did(<<Recv("count", 4, 4)>>)
          /\ pv' = [pv EXCEPT !.numVectors = n, !.i = 0]
          /\ pc' = IF 0 < n THEN "size" ELSE "pv_return"
  /\ UNCHANGED <<file, started, users, conn, open, closes, auth, au, calc>>

\* the rest of a loop iteration once the payload in `bytes` is complete, with
\* the result held back unless the vector is the last one
FinishVector_Batched(calls, bytes) ==
  LET result == calculateSumOfSquares(DecodeVector(bytes))
  IN  IF pv.i + 1 < pv.numVectors
        THEN /\ Did(calls)
             /\ pv' = [pv EXCEPT !.i = pv.i + 1, !.vectorSize = 0, !.buf = <<>>]
             /\ pc' = "size"
        ELSE \E o \in SendOutcomes :
               /\ Did(Append(calls, Send("result", 2, SendRet(o, 2), result)))
               /\ pv' = [pv EXCEPT !.i = pv.i + 1, !.vectorSize = 0, !.buf = <<>>]
               /\ pc' = AfterSend(o, "pv_return")

\* the rest of a loop iteration once the payload in `bytes` is complete, with
\* the value send returns not tested
FinishVector_SendUnchecked(calls, bytes) ==
  LET result == calculateSumOfSquares(DecodeVector(bytes))
  IN  \E o \in SendOutcomes :
        /\ Did(Append(calls, Send("result", 2, SendRet(o, 2), result)))
        /\ pv' = [pv EXCEPT !.i = pv.i + 1,
                            !.vectorSize = Len(bytes) \div 2, !.buf = bytes]
        /\ pc' = AfterSend(o, IF pv.i + 1 < pv.numVectors THEN "size" ELSE "pv_return")

\* the rest of a loop iteration once the payload in `bytes` is complete, with
\* a 4-byte count of results written after the last result
FinishVector_TrailingCount(calls, bytes) ==
  LET result == calculateSumOfSquares(DecodeVector(bytes))
  IN  \E o \in SendOutcomes :
        /\ IF o = "full" /\ pv.i + 1 = pv.numVectors
             THEN Did(calls \o <<Send("result", 2, 2, result),
                                 Send("result_count", 4, 4, pv.numVectors)>>)
             ELSE Did(Append(calls, Send("result", 2, SendRet(o, 2), result)))
        /\ IF o = "full"
             THEN /\ pv' = [pv EXCEPT !.i = pv.i + 1,
                                      !.vectorSize = Len(bytes) \div 2, !.buf = bytes]
                  /\ pc' = IF pv.i + 1 < pv.numVectors THEN "size" ELSE "pv_return"
             ELSE /\ pv' = [pv EXCEPT !.vectorSize = Len(bytes) \div 2, !.buf = bytes]
                  /\ pc' = AfterSend(o, "pv_return")

\* the rest of a loop iteration once the payload in `bytes` is complete, with
\* the index advanced before the result is sent
FinishVector_AdvancesFirst(calls, bytes) ==
  LET result == calculateSumOfSquares(DecodeVector(bytes))
  IN  \E o \in SendOutcomes :
        /\ Did(Append(calls, Send("result", 2, SendRet(o, 2), result)))
        /\ pv' = [pv EXCEPT !.i = pv.i + 1,
                            !.vectorSize = Len(bytes) \div 2, !.buf = bytes]
        /\ pc' = IF o = "full"
                   THEN (IF pv.i + 1 < pv.numVectors THEN "size" ELSE "pv_return")
                   ELSE AfterSend(o, "pv_return")

\* the rest of a loop iteration once the payload in `bytes` is complete
\* (`calls` are the calls the step has made so far): the result is computed
\* and sent; a send that does not return 2 ends processVectors, else the loop
\* goes on to the next vector or ends
FinishVector(calls, bytes) ==
  LET result == calculateSumOfSquares(DecodeVector(bytes))
  IN  \E o \in SendOutcomes :
        /\ Did(Append(calls, Send("result", 2, SendRet(o, 2), result)))
        /\ IF o = "full"
             THEN /\ pv' = [pv EXCEPT !.i = pv.i + 1,
                                      !.vectorSize = Len(bytes) \div 2, !.buf = bytes]
                  /\ pc' = IF pv.i + 1 < pv.numVectors THEN "size" ELSE "pv_return"
             ELSE /\ pv' = [pv EXCEPT !.vectorSize = Len(bytes) \div 2, !.buf = bytes]
                  /\ pc' = AfterSend(o, "pv_return")

\* recv of a vector size, with the payload recv entered once before the
\* number of bytes read is tested
ReadSize_RecvFirst ==
  /\ pc = "size"
  /\ \/ \E r \in FieldFail :
          /\ Did(<<Recv("size", 4, r)>>)
          /\ pc' = "pv_return"
          /\ UNCHANGED pv
     \/ \E size \in Sizes : \E alloc \in AllocOutcomes(size) :
          LET rx == Recv("size", 4, 4)
          IN  IF alloc = "bad_alloc"
                THEN /\ Did(<<rx>>)
                     /\ pv' = [pv EXCEPT !.vectorSize = size, !.buf = <<>>]
                     /\ pc' = "terminate_bad_alloc"
                ELSE /\ Did(<<rx>>)
                     /\ pv' = [pv EXCEPT !.vectorSize = size, !.buf = <<>>]
                     /\ pc' = "data"
  /\ UNCHANGED <<file, started, users, conn, open, closes, auth, au, calc>>

\* recv of a vector size; the vector is allocated; an empty vector has no
\* payload to read and is finished at once
ReadSize ==
  /\ pc = "size"
  /\ \/ \E r \in FieldFail :
          /\ Did(<<Recv("size", 4, r)>>)
          /\ pc' = "pv_return"
          /\ UNCHANGED pv
     \/ \E size \in Sizes : \E alloc \in AllocOutcomes(size) :
          LET rx == Recv("size", 4, 4)
          IN  IF alloc = "bad_alloc"
                THEN /\ Did(<<rx>>)
                     /\ pv' = [pv EXCEPT !.vectorSize = size, !.buf = <<>>]
                     /\ pc' = "terminate_bad_alloc"
                ELSE IF size = 0
                  THEN FinishVector(<<rx>>, <<>>)
                  ELSE /\ Did(<<rx>>)
                       /\ pv' = [pv EXCEPT !.vectorSize = size, !.buf = <<>>]
                       /\ pc' = "data"
  /\ UNCHANGED <<file, started, users, conn, open, closes, auth, au, calc>>

\* bytes a payload recv may still return: what is left of the vector, and in
\* the model no more than 2 * MaxVecSize bytes of one vector are delivered
Room == (IF pv.vectorSize <= MaxVecSize THEN 2 * pv.vectorSize ELSE 2 * MaxVecSize)
          - Len(pv.buf)

\* recv inside the payload loop, with ERR written to the peer when it fails
ReadData_ErrOnFail ==
  /\ pc = "data"
  /\ \/ \E r \in RecvFail, o \in SendOutcomes :
          /\ Did(<<Recv("data", Room, r), Send("ERR", 3, SendRet(o, 3), 0)>>)
          /\ pc' = AfterSend(o, "pv_return")
          /\ UNCHANGED pv
     \/ \E chunk \in Chunks(Room) :
          LET rx    == Recv("data", Room, Len(chunk))
              bytes == pv.buf \o chunk
          IN  IF pv.vectorSize <= MaxVecSize /\ Len(bytes) = 2 * pv.vectorSize
                THEN FinishVector(<<rx>>, bytes)
                ELSE /\ Did(<<rx>>)
                     /\ pv' = [pv EXCEPT !.buf = bytes]
                     /\ pc' = "data"
  /\ UNCHANGED <<file, started, users, conn, open, closes, auth, au, calc>>

\* one recv in place of the payload loop: whatever it returns is the vector
ReadData_SingleRead ==
  /\ pc = "data"
  /\ \/ \E r \in RecvFail :
          /\ Did(<<Recv("data", Room, r)>>)
          /\ pc' = "pv_return"
          /\ UNCHANGED pv
     \/ \E chunk \in Chunks(Room) :
          FinishVector(<<Recv("data", Room, Len(chunk))>>, pv.buf \o chunk)
  /\ UNCHANGED <<file, started, users, conn, open, closes, auth, au, calc>>

\* recv inside the payload loop
ReadData ==
  /\ pc = "data"
  /\ \/ \E r \in RecvFail :
          /\ Did(<<Recv("data", Room, r)>>)
          /\ pc' = "pv_return"
          /\ UNCHANGED pv
     \/ \E chunk \in Chunks(Room) :
          LET rx    == Recv("data", Room, Len(chunk))
              bytes == pv.buf \o chunk
          IN  IF pv.vectorSize <= MaxVecSize /\ Len(bytes) = 2 * pv.vectorSize
                THEN FinishVector(<<rx>>, bytes)
                ELSE /\ Did(<<rx>>)
                     /\ pv' = [pv EXCEPT !.buf = bytes]
                     /\ pc' = "data"
  /\ UNCHANGED <<file, started, users, conn, open, closes, auth, au, calc>>

(***************************************************************************)
(* The server                                                              *)
(***************************************************************************)
Next ==
  \/ Start
  \/ AcceptFails
  \/ Accept
  \/ LoginNotReceived
  \/ LoginReceived
  \/ ResponseNotReceived
  \/ ResponseReceived
  \/ HandleClientAuth
  \/ HandleClientClose
  \/ ReadCount
  \/ ReadSize
  \/ ReadData

Spec == Init /\ [][Next]_vars

(***************************************************************************)
(* Direct calls of calculateSumOfSquares                                   *)
(***************************************************************************)
MaxCalcLen == 2    \* longest vector passed in a direct call

CalcValues == {-32768, -182, -181, -128, -1, 0, 1, 128, 181, 182, 32767}

CalcInputs == UNION { [1..m -> CalcValues] : m \in 0..MaxCalcLen }

InitCalc ==
  /\ file = NoFile
  /\ started = "none"
  /\ pc = "calc"
  /\ users = <<>>
  /\ conn = 0
  /\ open = {}
  /\ closes = 0
  /\ auth = "none"
  /\ io = <<>>
  /\ last = NoCall
  /\ au = NoAuth
  /\ pv = NoPv
  /\ calc \in { [vector |-> v, result |-> 0, done |-> FALSE] : v \in CalcInputs }

\* testCalculateSumOfSquares(vector)
CalcApply ==
  /\ pc = "calc"
  /\ ~calc.done
  /\ calc' = [calc EXCEPT !.result = calculateSumOfSquares(calc.vector), !.done = TRUE]
  /\ UNCHANGED <<file, started, pc, users, conn, open, closes, auth, io, last, au, pv>>

NextCalc == CalcApply

SpecCalc == InitCalc /\ [][NextCalc]_vars

(***************************************************************************)
(* Direct calls of sha224Hash                                              *)
(***************************************************************************)
MaxHashLen == 2    \* longest string hashed in a direct call

\* bytes of the strings hashed: NUL, 'a', 0xFF
HashBytes == {0, 97, 255}

HashInputs == UNION { [1..m -> HashBytes] : m \in 0..MaxHashLen }

InitHash ==
  /\ file = NoFile
  /\ started = "none"
  /\ pc = "hash"
  /\ users = <<>>
  /\ conn = 0
  /\ open = {}
  /\ closes = 0
  /\ auth = "none"
  /\ io = <<>>
  /\ last = NoCall
  /\ au = NoAuth
  /\ pv = NoPv
  /\ calc \in { [input |-> x, evp |-> e, result |-> <<>>, done |-> FALSE] :
                  x \in HashInputs, e \in EvpOutcomes }

\* testSha224Hash(input), with the outcome of the EVP calls
HashApply ==
  /\ pc = "hash"
  /\ ~calc.done
  /\ calc' = [calc EXCEPT !.result = sha224Hash(calc.input, calc.evp), !.done = TRUE]
  /\ UNCHANGED <<file, started, pc, users, conn, open, closes, auth, io, last, au, pv>>

NextHash == HashApply

SpecHash == InitHash /\ [][NextHash]_vars

(***************************************************************************)
(* Direct calls of loadUserDatabase                                        *)
(***************************************************************************)
MaxLines == 2      \* most lines in a credential file loaded directly

\* lines of a credential file: "", "ab", ":", ":p", "a:", "a:p", "a:q", "b:p",
\* "a::", "a:q:p"
LineInputs ==
  { <<>>, <<97, 98>>, <<58>>, <<58, 112>>, <<97, 58>>, <<97, 58, 112>>,
    <<97, 58, 113>>, <<98, 58, 112>>, <<97, 58, 58>>, <<97, 58, 113, 58, 112>> }

LoadInputs ==
  { [is_open |-> o, lines |-> l] :
      o \in BOOLEAN, l \in UNION { [1..m -> LineInputs] : m \in 0..MaxLines } }

InitLoad ==
  /\ file \in LoadInputs
  /\ started = "none"
  /\ pc = "load"
  /\ users = <<>>
  /\ conn = 0
  /\ open = {}
  /\ closes = 0
  /\ auth = "none"
  /\ io = <<>>
  /\ last = NoCall
  /\ au = NoAuth
  /\ pv = NoPv
  /\ calc = NoCalc

\* testLoadUserDatabase() on a freshly constructed server
LoadApply ==
  /\ pc = "load"
  /\ users' = loadUserDatabase(file)
  /\ pc' = "loaded"
  /\ UNCHANGED <<file, started, conn, open, closes, auth, io, last, au, pv, calc>>

NextLoad == LoadApply

SpecLoad == InitLoad /\ [][NextLoad]_vars

(***************************************************************************)
(* Properties                                                              *)
(***************************************************************************)

\* the positions inside a session, and those where the process has ended
SessionPcs == {"login", "response", "auth_return", "count", "size", "data", "pv_return"}
VectorPcs  == {"count", "size", "data", "pv_return"}
DeadPcs    == {"killed_SIGPIPE", "terminate_bad_alloc"}

\* number of calls among the first n of io that satisfy the test
RECURSIVE CountCalls(_, _, _)
CountCalls(n, op, what) ==
  IF n = 0 THEN 0
  ELSE CountCalls(n - 1, op, what)
         + (IF io[n].op = op /\ io[n].what = what /\ io[n].ok THEN 1 ELSE 0)

\* the digest of salt ++ password for the login being authenticated
ExpectedDigest == sha224Hash(au.salt \o users[au.login], "ok")

\* the handshake has answered a response
Answered == pc \in {"auth_return", "killed_SIGPIPE"} /\ au.rxResp # <<>>

\* The stand-in for SHA-224 has no collision on the inputs the model hashes
\* and always renders 56 characters.
DigestCollisionFree ==
  LET inputs == { s \o p : s \in {generateSalt(v) : v \in SaltValues},
                           p \in {<<112>>, <<113>>, <<113, 58, 112>>} }
                \cup { p \o s : s \in {generateSalt(v) : v \in SaltValues},
                                p \in {<<112>>, <<113>>, <<113, 58, 112>>} }
  IN  /\ \A x, y \in inputs : x # y => sha224Hash(x, "ok") # sha224Hash(y, "ok")
      /\ \A x \in inputs : Len(sha224Hash(x, "ok")) = 56

\* C1: the vector engine reads from a connection only after authenticate
\* returned true on it: every recv of a count, size or payload comes after
\* the send of OK, in a session whose handshake succeeded.
C1_VectorReadsOnlyAfterAuth ==
  /\ pc \in VectorPcs \cup {"terminate_bad_alloc"} => auth = "ok"
  /\ \A k \in 1..Len(io) :
       (io[k].op = "recv" /\ io[k].what \in {"count", "size", "data"})
         => /\ auth = "ok"
            /\ \E j \in 1..(k - 1) : io[j].op = "send" /\ io[j].what = "OK"

C1_Witness == pc = "data" /\ pv.buf # <<>> /\ auth = "ok"

\* C2: whenever the response read returns the 56 characters of
\* Hash(salt ++ secret), in any case, the server answers OK, and when that
\* write is accepted authenticate returns true.
C2_DigestAnswerIsAccepted ==
  (Answered /\ Len(au.rxResp) = 56 /\ ToUpperStr(au.rxResp) = ExpectedDigest)
    => /\ last.op = "send" /\ last.what = "OK"
       /\ last.ret = 2 => au.ret = "true"

\* what holds of the digest answer: it is accepted whenever the server's own
\* digest computation succeeded (sha224Hash did not return the empty string)
C2_DigestAnswerIsAcceptedWhenHashed ==
  (Answered /\ Len(au.rxResp) = 56 /\ ToUpperStr(au.rxResp) = ExpectedDigest
            /\ au.computedHash # <<>>)
    => /\ last.op = "send" /\ last.what = "OK"
       /\ last.ret = 2 => au.ret = "true"

C2_Witness ==
  /\ pc = "auth_return"
  /\ au.rxResp # <<>>
  /\ au.rxResp = MixedCase(ExpectedDigest)
  /\ au.rxResp # ExpectedDigest
  /\ au.rxResp # ToLowerStr(ExpectedDigest)
  /\ last.what = "OK" /\ last.ret = 2
  /\ au.ret = "true"

\* C3: when the bytes received as login are not a key of the store, the only
\* calls on the connection are the login read and one send of the 3 bytes
\* ERR; no salt is generated and the handshake does not succeed.
C3_UnknownLoginGetsOnlyERR ==
  (au.rxLogin # <<>> /\ au.rxLogin \notin DOMAIN users)
    => /\ pc \in {"auth_return", "killed_SIGPIPE"}
       /\ Len(io) = 2
       /\ last.op = "send" /\ last.what = "ERR" /\ last.len = 3
       /\ au.salt = <<>>
       /\ au.ret # "true"

\* C4: OK is sent only if the whole response, upper-cased, is the 56
\* character digest of salt ++ secret; any other response is answered ERR
\* and the handshake fails.
C4_OkOnlyOnWholeDigest ==
  Answered
    => /\ last.what = "OK"
            => Len(au.rxResp) = 56 /\ ToUpperStr(au.rxResp) = ExpectedDigest
       /\ (Len(au.rxResp) # 56 \/ ToUpperStr(au.rxResp) # ExpectedDigest)
            => last.what = "ERR" /\ au.ret # "true"

\* C5: the key looked up is exactly the byte sequence the login read
\* returned (1 to 255 bytes).
C5_KeyIsReceivedBytes ==
  au.rxLogin # <<>>
    => Len(au.rxLogin) \in 1..255 /\ au.login = au.rxLogin

\* C6: when the size or the payload of a vector is read, the result of every
\* earlier vector of the session has been written: before a size read as
\* many results have been sent as sizes were read, before a payload read one
\* fewer.
C6_ResultBeforeNextVector ==
  \A k \in 1..Len(io) :
    /\ (io[k].op = "recv" /\ io[k].what = "size")
         => CountCalls(k - 1, "send", "result") = CountCalls(k - 1, "recv", "size")
    /\ (io[k].op = "recv" /\ io[k].what = "data")
         => CountCalls(k - 1, "send", "result") = CountCalls(k - 1, "recv", "size") - 1

C6_Witness == pc = "data" /\ pv.i = 1 /\ pv.buf # <<>>

\* the sum of the squares in units of 32768: <<quotient, remainder>>
RECURSIVE SumSquaresQR(_)
SumSquaresQR(vector) ==
  IF vector = <<>> THEN <<0, 0>>
  ELSE LET sq   == Head(vector) * Head(vector)
           rest == SumSquaresQR(Tail(vector))
           r    == rest[2] + (sq % 32768)
       IN  <<rest[1] + (sq \div 32768) + (r \div 32768), r % 32768>>

\* min(sum of squares, 32767)
MinSumSquares(vector) ==
  LET qr == SumSquaresQR(vector) IN IF qr[1] >= 1 THEN 32767 ELSE qr[2]

\* C7: calculateSumOfSquares returns min(sum of the squares, 32767).
C7_SumOfSquaresIsClampedSum ==
  calc.done => calc.result = MinSumSquares(calc.vector)

\* the early return is taken at the first element and another follows
C7_Witness ==
  /\ calc.done
  /\ Len(calc.vector) = 2
  /\ calc.vector[1] * calc.vector[1] > 32767
  /\ calc.vector[2] # 0
  /\ calc.result = 32767

\* C8: whatever goes wrong in a session, the process is still running
\* afterwards (in the accept loop or serving a connection).
C8_DispatcherSurvivesSessions ==
  conn > 0 => pc \in SessionPcs \cup {"accept"}

\* C9: at most one client socket is open at any time, none while the
\* dispatcher is in accept, and inside a session it is the current one.
C9_OneConnectionAtATime ==
  /\ Cardinality(open) <= 1
  /\ pc = "accept" => open = {}
  /\ pc \in SessionPcs => open = {conn}

C9_Witness == conn = 2 /\ pc = "login" /\ open = {2}

\* C10: once the handshake of a connection has failed the connection is
\* closed and the dispatcher is back in accept; no OK and at most one salt
\* were sent on it, and no call is made on it any more.
C10_FailedHandshakeIsTerminal ==
  /\ [](auth = "failed" =>
          /\ pc = "accept"
          /\ conn \notin open
          /\ \A k \in 1..Len(io) : io[k].what # "OK"
          /\ Cardinality({k \in 1..Len(io) : io[k].what = "salt"}) <= 1)
  /\ [][(auth = "failed" /\ conn' = conn) => (io' = io /\ last' = last)]_vars

C10_Witness ==
  /\ auth = "failed"
  /\ Len(io) = 4
  /\ last.what = "ERR"

\* the sends of a result among the calls of the session, accepted or not
ResultSends == { k \in 1..Len(io) : io[k].op = "send" /\ io[k].what = "result" }

\* the recvs of the vector stream that ended it: a count or size that did not
\* return 4, a payload recv that returned 0 or less
FramingFailures ==
  { k \in 1..Len(io) : /\ io[k].op = "recv"
                       /\ io[k].what \in {"count", "size", "data"}
                       /\ ~io[k].ok }

\* C11: after a framing failure in the vector stream (a count or size not
\* read as 4 bytes, a payload recv returning 0 or less) no call at all is
\* made on the connection, so neither ERR nor a result is sent, and
\* processVectors has returned: the socket is about to be closed or is closed.
C11_NothingSentAfterFramingFailure ==
  \A k \in FramingFailures :
    /\ k = Len(io)
    /\ \/ pc = "pv_return" /\ open = {conn}
       \/ pc = "accept" /\ conn \notin open /\ closes = 1

C11_Witness ==
  /\ pc = "accept"
  /\ last.op = "recv" /\ last.what = "data" /\ last.ret = 0
  /\ Len(io) \in FramingFailures
  /\ conn \notin open

\* C12: a result is computed from exactly 2 * size payload bytes, however
\* the recvs split them: while fewer have arrived no result has been sent for
\* the vector, the result sent is the sum of squares of the concatenated
\* bytes, and a payload recv returning 0 or less before that ends the
\* session with no result for the vector.
C12_ExactPayloadWhateverTheSplit ==
  /\ (pc = "data" /\ pv.vectorSize <= MaxVecSize)
       => Len(pv.buf) < 2 * pv.vectorSize /\ Cardinality(ResultSends) = pv.i
  /\ (last.what = "data" /\ last.ok) => last.ret <= last.len
  /\ (last.what = "result" /\ pc \in {"size", "pv_return", "killed_SIGPIPE"})
       => /\ Len(pv.buf) = 2 * pv.vectorSize
          /\ last.val = calculateSumOfSquares(DecodeVector(pv.buf))
          /\ Cardinality(ResultSends) = pv.i + (IF last.ok THEN 0 ELSE 1)
  /\ (last.what = "data" /\ ~last.ok /\ pc = "pv_return")
       => /\ pv.vectorSize <= MaxVecSize => Len(pv.buf) < 2 * pv.vectorSize
          /\ Cardinality(ResultSends) = pv.i

\* the payload of a vector arrived in more than one recv and its result was sent
C12_Witness ==
  /\ last.what = "result" /\ last.ok
  /\ pc \in {"size", "pv_return"}
  /\ pv.vectorSize >= 1
  /\ Len(io) >= 3
  /\ io[Len(io) - 1].what = "data" /\ io[Len(io) - 2].what = "data"
  /\ last.val # 0

\* C13: the count and each size come from one recv: when it returns anything
\* but 4 (1 to 3 bytes included) it is the last call made on the connection,
\* every result sent belongs to an earlier, completed vector, and
\* processVectors returns.
C13_ShortFieldReadAborts ==
  \A k \in 1..Len(io) :
    (io[k].op = "recv" /\ io[k].what \in {"count", "size"} /\ ~io[k].ok)
      => /\ k = Len(io)
         /\ pc \in {"pv_return", "accept"}
         /\ CountCalls(k - 1, "send", "result") = CountCalls(k - 1, "recv", "size")
         /\ \A j \in ResultSends : io[j].ok

C13_Witness ==
  /\ pc = "pv_return"
  /\ last.op = "recv" /\ last.what = "size" /\ last.ret \in 1..3
  /\ pv.i = 1 /\ pv.numVectors = 2

\* C14: a send of a result that does not return 2 is the last call made on
\* the connection: no further vector is read and no further result is sent.
C14_ShortResultWriteAborts ==
  \A k \in ResultSends :
    ~io[k].ok
      => /\ k = Len(io)
         /\ pc \in {"pv_return", "accept", "killed_SIGPIPE"}

\* the write of the first of two vectors' results accepted 1 byte
C14_Witness ==
  /\ pc = "pv_return"
  /\ last.what = "result" /\ last.ret = 1
  /\ pv.numVectors = 2 /\ pv.i = 0

\* the positions of ':' in a line
Separators(line) == { k \in 1..Len(line) : line[k] = 58 }

\* a line with exactly one ':', something before it and something after it
OneSeparatorLine(line) ==
  /\ Cardinality(Separators(line)) = 1
  /\ \A k \in Separators(line) : 1 < k /\ k < Len(line)

\* the parts of such a line
BeforeSeparator(line) == SubSeq(line, 1, (CHOOSE k \in Separators(line) : TRUE) - 1)
AfterSeparator(line) == SubSeq(line, (CHOOSE k \in Separators(line) : TRUE) + 1, Len(line))

\* C15: a line is recorded only if it has exactly one ':' with a non-empty
\* login before it and a non-empty secret after it: every entry of the store
\* is the login and secret of such a line of the file, every such line's
\* login is in the store, and all other lines leave no entry.
C15_OnlyOneSeparatorLinesRecorded ==
  (pc = "loaded" /\ file.is_open)
    => /\ \A l \in DOMAIN users :
            \E n \in 1..Len(file.lines) :
              /\ OneSeparatorLine(file.lines[n])
              /\ BeforeSeparator(file.lines[n]) = l
              /\ AfterSeparator(file.lines[n]) = users[l]
       /\ \A n \in 1..Len(file.lines) :
            OneSeparatorLine(file.lines[n])
              => BeforeSeparator(file.lines[n]) \in DOMAIN users

\* the lines of the file the loader accepts: those that, loaded alone, leave
\* an entry; that entry's login and secret
AcceptedLines == { n \in 1..Len(file.lines) : LoadLine(<<>>, file.lines[n]) # <<>> }
LoginOfLine(n) == CHOOSE l \in DOMAIN LoadLine(<<>>, file.lines[n]) : TRUE
SecretOfLine(n) == LoadLine(<<>>, file.lines[n])[LoginOfLine(n)]

\* C16: after a load the store has one entry per distinct login of the
\* accepted lines, and the secret of a login is the one on the last accepted
\* line with that login.
C16_LastDuplicateWins ==
  (pc = "loaded" /\ file.is_open)
    => /\ DOMAIN users = { LoginOfLine(n) : n \in AcceptedLines }
       /\ Cardinality(DOMAIN users) = Cardinality({ LoginOfLine(n) : n \in AcceptedLines })
       /\ \A n \in AcceptedLines :
            (\A m \in AcceptedLines : LoginOfLine(m) = LoginOfLine(n) => m <= n)
              => users[LoginOfLine(n)] = SecretOfLine(n)

\* a login on two accepted lines with different secrets
C16_Witness ==
  /\ pc = "loaded" /\ file.is_open
  /\ \E m, n \in AcceptedLines :
       /\ m < n
       /\ LoginOfLine(m) = LoginOfLine(n)
       /\ SecretOfLine(m) # SecretOfLine(n)
       /\ users[LoginOfLine(n)] = SecretOfLine(n)
  /\ Cardinality(DOMAIN users) = 1

\* C17: when the credential file cannot be opened the store is empty once
\* start has loaded it, and every handshake ends in identification failure:
\* a received login is answered with ERR, no salt is generated or sent, no
\* response is read and no session reaches vector processing.
C17_UnopenableFileLeavesEmptyStore ==
  (~file.is_open /\ pc # "start")
    => /\ users = <<>>
       /\ pc \notin VectorPcs \cup {"response", "terminate_bad_alloc"}
       /\ auth # "ok"
       /\ \A k \in 1..Len(io) : io[k].what \in {"login", "ERR"}
       /\ au.salt = <<>>
       /\ au.rxLogin # <<>>
            => last.op = "send" /\ last.what = "ERR" /\ last.len = 3 /\ au.ret # "true"

\* start went on to accept, and the second connection's login, which is on a
\* line of the unreadable file, was answered ERR
C17_Witness ==
  /\ ~file.is_open
  /\ conn = 2
  /\ pc = "auth_return"
  /\ au.rxLogin = <<97>>
  /\ last.what = "ERR" /\ last.ret = 3

\* C18: the store is written only by the load in start: afterwards it is
\* what loadUserDatabase made of the file, and no step of a handshake or of
\* a vector exchange changes it.
C18_StoreWrittenOnlyAtStartup ==
  /\ [](pc \in SessionPcs \cup DeadPcs \cup {"accept"} => users = loadUserDatabase(file))
  /\ [][pc # "start" => users' = users]_vars

\* a login that is not in the store has been handled and the store still has
\* its entries
C18_Witness ==
  /\ pc = "accept"
  /\ auth = "failed"
  /\ Len(io) = 2 /\ last.what = "ERR"
  /\ users # <<>>
  /\ conn = 2

\* the characters 0-9 and A-F
UpperHexChars == (48..57) \cup (65..70)

\* C19: the salt generateSalt returns is 16 characters, each in 0-9 or A-F,
\* and the challenge is written by one send of exactly those 16 bytes, which
\* is the only thing sent between the login and the response.
C19_SaltIs16UpperHexOnTheWire ==
  /\ au.salt # <<>>
       => /\ Len(au.salt) = 16
          /\ \A k \in 1..16 : au.salt[k] \in UpperHexChars
          /\ Len(io) >= 2 /\ io[2].op = "send" /\ io[2].what = "salt"
  /\ last.what = "salt" => last.op = "send" /\ last.len = 16
  /\ (last.what = "salt" /\ pc \in {"response", "auth_return", "killed_SIGPIPE"})
       => Len(au.salt) = last.len
  /\ pc = "response" => last.what = "salt" /\ last.ret = 16 /\ Len(io) = 2

\* the value 0xABCD was drawn: the salt is zero-padded and upper-case
C19_Witness ==
  /\ pc = "response"
  /\ au.salt = <<48, 48, 48, 48, 48, 48, 48, 48, 48, 48, 48, 48, 65, 66, 67, 68>>
  /\ last.what = "salt" /\ last.ret = 16

\* C20: sha224Hash returns 56 characters, each in 0-9 or A-F, for every
\* input, the empty string included; never a shorter or an empty string.
C20_HashIs56UpperHex ==
  calc.done
    => /\ Len(calc.result) = 56
       /\ \A k \in 1..Len(calc.result) : calc.result[k] \in UpperHexChars

\* what holds of sha224Hash: 56 characters of 0-9A-F when every EVP call
\* succeeds, the empty string when one fails
HashIs56UpperHexOrEmpty ==
  calc.done
    => IF calc.evp = "ok"
         THEN /\ Len(calc.result) = 56
              /\ \A k \in 1..56 : calc.result[k] \in UpperHexChars
         ELSE calc.result = <<>>

\* the startup calls whose failure makes start return false after the load
StartupFailures == {"socket_failed", "setsockopt_failed", "bind_failed", "listen_failed"}

\* C26: when socket, setsockopt, bind or listen fails, start returns false
\* and main returns 1: the process has ended with status 1, accept was never
\* called and no client was served.
C26_StartupFailureExits1 ==
  /\ started \in StartupFailures
       => /\ pc = "exit1"
          /\ conn = 0 /\ open = {} /\ io = <<>> /\ auth = "none"
  /\ pc = "exit1" => started \in StartupFailures \cup {"log_failed"}
  /\ pc \in SessionPcs \cup DeadPcs \cup {"accept"} => started = "ok"

\* bind failed after the credential file had been loaded
C26_Witness ==
  /\ started = "bind_failed"
  /\ pc = "exit1"
  /\ users # <<>>

\* C21: a send of the salt that does not return 16 is the last call of the
\* handshake: no response is read, neither OK nor ERR is sent, authenticate
\* returns false and the session does not enter vector processing.
C21_ShortSaltSendFailsHandshake ==
  \A k \in 1..Len(io) :
    (io[k].op = "send" /\ io[k].what = "salt" /\ ~io[k].ok)
      => /\ k = Len(io)
         /\ pc \in {"auth_return", "accept", "killed_SIGPIPE"}
         /\ auth # "ok"
         /\ pc = "auth_return" => au.ret = "false"

\* the send of the salt accepted 15 bytes
C21_Witness ==
  /\ pc = "auth_return"
  /\ last.what = "salt" /\ last.ret = 15
  /\ au.ret = "false"

\* C22: a recv of the login or of the response that returns 0 or less is the
\* last call of the handshake: nothing is looked up or compared for it, no
\* OK or ERR follows, authenticate returns false and the session does not
\* enter vector processing.
C22_FailedHandshakeReadFails ==
  \A k \in 1..Len(io) :
    (io[k].op = "recv" /\ io[k].what \in {"login", "response"} /\ ~io[k].ok)
      => /\ k = Len(io)
         /\ pc \in {"auth_return", "accept"}
         /\ auth # "ok"
         /\ pc = "auth_return"
              => /\ au.ret = "false"
                 /\ au.receivedHash = <<>> /\ au.computedHash = <<>>
                 /\ io[k].what = "login" => au.login = <<>> /\ au.salt = <<>>

\* the peer closed the connection after it received the salt
C22_Witness ==
  /\ pc = "auth_return"
  /\ last.op = "recv" /\ last.what = "response" /\ last.ret = 0
  /\ au.salt # <<>>
  /\ au.ret = "false"

\* the sends of the session
Sends == { k \in 1..Len(io) : io[k].op = "send" }

C24_ResultsPrecededByCount ==
  \A k \in ResultSends :
    \E j \in Sends : j < k /\ io[j].what = "result_count"

\* the positions where the process is blocked in a recv on the client socket
BlockedPcs == {"login", "response", "count", "size", "data"}

\* C25: no recv has a timeout: a process blocked in a recv of the handshake
\* or of the vector engine leaves that position only by that recv returning
\* (bytes, 0 or an error from the peer's side); until then nothing changes,
\* and in particular no other connection is accepted.
C25_BlockedUntilRecvReturns ==
  [][(pc \in BlockedPcs)
       => (/\ conn' = conn
           /\ open' = open
           /\ Len(io') > Len(io)
           /\ io'[Len(io) + 1].op = "recv"
           /\ io'[Len(io) + 1].what = pc)]_vars

\* the server waits for the size of the second vector of the first connection
C25_Witness ==
  /\ pc = "size"
  /\ conn = 1
  /\ pv.i = 1
  /\ last.what = "result"

\* C27: calculateSumOfSquares never returns a negative value: the running
\* sum is never negative and never decreases, the return of -32768 is never
\* taken, and the narrowing to 16 bits at the end is applied to a value in
\* 0..32767, which it leaves as it is.
C27_SumOfSquaresNeverNegative ==
  calc.done
    => LET p == SumPath(calc.vector, 1, 0, <<>>)
       IN  /\ calc.result \in 0..32767
           /\ p.exit # "lower"
           /\ \A k \in 1..Len(p.sums) :
                p.sums[k] >= (IF k = 1 THEN 0 ELSE p.sums[k - 1])
           /\ p.exit = "end"
                => /\ p.sum \in 0..32767
                   /\ narrow16(p.sum) = p.sum
                   /\ calc.result = p.sum
           /\ p.exit = "upper" => calc.result = 32767

\* two negative elements whose squares add up to more than 32767 / 2
C27_Witness ==
  /\ calc.done
  /\ calc.vector = <<-181, -1>>
  /\ calc.result = 32762

\* C28: every accepted connection is closed exactly once and before the
\* next accept: while a session runs its socket is open and close has not
\* been called; whenever the dispatcher is back in accept, after a failed
\* handshake, a completed vector loop or an aborted one, close has been
\* called once on the last connection; a step that closes goes from 0 to 1.
C28_ClosedExactlyOnceBeforeNextAccept ==
  /\ [](/\ closes \in {0, 1}
        /\ pc \in SessionPcs => closes = 0 /\ conn \in open
        /\ (pc = "accept" /\ conn > 0) => closes = 1 /\ open = {})
  /\ [][(/\ conn' = conn => closes' \in {closes, closes + 1}
         /\ (conn' # conn /\ conn > 0) => closes = 1 /\ open = {})]_vars

\* the second connection was closed after its vector loop was aborted
C28_Witness ==
  /\ pc = "accept"
  /\ conn = 2
  /\ auth = "ok"
  /\ closes = 1 /\ open = {}
  /\ last.op = "recv" /\ ~last.ok

\* C29: for a vector of declared size 0 no payload recv is made, the result
\* 0 is sent directly after the size was read, and the loop goes on to the
\* next size or ends.
C29_EmptyVectorAnsweredWithZero ==
  /\ pc = "data" => pv.vectorSize > 0
  /\ (last.what = "result" /\ pv.vectorSize = 0
         /\ pc \in {"size", "pv_return", "killed_SIGPIPE"})
       => /\ last.val = 0
          /\ io[Len(io) - 1].op = "recv" /\ io[Len(io) - 1].what = "size"
          /\ last.ok => pc = (IF pv.i < pv.numVectors THEN "size" ELSE "pv_return")
          /\ ~last.ok => pc \in {"pv_return", "killed_SIGPIPE"}

\* the first of two vectors was empty and its result 0 was sent
C29_Witness ==
  /\ pc = "size"
  /\ pv.numVectors = 2 /\ pv.i = 1
  /\ pv.vectorSize = 0
  /\ last.what = "result" /\ last.val = 0 /\ last.ret = 2

\* the count of the session was read
CountRead == \E k \in 1..Len(io) : io[k].what = "count" /\ io[k].ok

\* C30: with a count of 0 the engine makes no further call; for any count
\* N, once N results have been sent the engine makes no further call on the
\* connection, so nothing the peer sends after its N-th vector is read.
C30_NoReadBeyondDeclaredCount ==
  /\ (pc \in VectorPcs /\ CountRead
         /\ Cardinality({ k \in ResultSends : io[k].ok }) = pv.numVectors)
       => /\ pc = "pv_return"
          /\ last.what = (IF pv.numVectors = 0 THEN "count" ELSE "result")
          /\ last.ok
  /\ (pc \in {"size", "data"}) => pv.i < pv.numVectors
  /\ (pc \in VectorPcs /\ CountRead) => Cardinality(ResultSends) <= pv.numVectors

\* a count of 0 was read: processVectors has returned without another call
C30_Witness ==
  /\ pc = "pv_return"
  /\ auth = "ok"
  /\ pv.numVectors = 0
  /\ last.what = "count" /\ last.ret = 4
  /\ Len(io) = 5

\* the size fields read in the session
SizesRead == { k \in 1..Len(io) : io[k].what = "size" /\ io[k].ok }

\* v: the vectors whose payload has been read in full: every vector whose
\* size was read, less the current one while its buffer is not yet filled
VectorsRead ==
  Cardinality(SizesRead)
    - (IF /\ SizesRead # {}
          /\ \/ pv.vectorSize > MaxVecSize
             \/ Len(pv.buf) # 2 * pv.vectorSize
         THEN 1 ELSE 0)

\* r: the results the peer has been sent
ResultsSent == Cardinality({ k \in ResultSends : io[k].ok })

\* the vector loop was left before its N-th result was sent
LoopAborted ==
  /\ pc \in {"pv_return", "killed_SIGPIPE", "terminate_bad_alloc"}
  /\ pv.i < pv.numVectors

\* C31: at every point of a vector session r <= v <= r + 1 and v <= N, where
\* r is the number of results sent and v the number of vectors read in full;
\* when the loop is aborted while handling vector index i, exactly i results
\* have been sent.
C31_ResultsTrackVectorsRead ==
  (auth = "ok" /\ CountRead /\ pc \in VectorPcs \cup DeadPcs)
    => /\ ResultsSent <= VectorsRead
       /\ VectorsRead <= ResultsSent + 1
       /\ VectorsRead <= pv.numVectors
       /\ LoopAborted => ResultsSent = pv.i

\* the loop was aborted at index 1 of 2 by a failed send of the second
\* result: two vectors read, one result sent
C31_Witness ==
  /\ auth = "ok"
  /\ pc = "pv_return"
  /\ pv.numVectors = 2 /\ pv.i = 1
  /\ last.what = "result" /\ ~last.ok
  /\ VectorsRead = 2 /\ ResultsSent = 1

\* C32: the value authenticate returns does not depend on what the send of
\* the token returned: after OK was written, in full, in part or not at all,
\* it returns true and handleClient goes on to processVectors; after ERR, for
\* a mismatch or an unknown login, it returns false and the socket is closed.
C32_OutcomeIgnoresTokenWrite ==
  /\ []((pc = "auth_return" /\ last.op = "send" /\ last.what \in {"OK", "ERR"})
         => au.ret = (IF last.what = "OK" THEN "true" ELSE "false"))
  /\ [][(pc = "auth_return" /\ last.op = "send" /\ last.what \in {"OK", "ERR"})
         => (IF last.what = "OK"
               THEN pc' = "count" /\ auth' = "ok" /\ open' = open
               ELSE pc' = "accept" /\ auth' = "failed" /\ conn \notin open')]_vars

\* OK was accepted only in part and the session waits for the vector count
C32_Witness ==
  /\ pc = "count"
  /\ auth = "ok"
  /\ last.op = "send" /\ last.what = "OK" /\ last.ret = 1

\* the digests that answer the salts other than the one sent on the current
\* connection, for the secret of the login
ReplayedDigests ==
  { sha224Hash(generateSalt(v) \o users[au.login], "ok") :
      v \in { w \in SaltValues : generateSalt(w) # au.salt } }

\* C33: the digest a response is compared with is computed from the salt
\* sent on this connection: on every connection a response that is the
\* digest of s' ++ secret for a salt s' other than the one just sent, such as
\* one recorded on an earlier connection, is answered ERR and the handshake
\* fails (the digests of distinct inputs being distinct).
C33_ReplayedResponseRejected ==
  /\ DigestCollisionFree
  /\ (Answered /\ au.rxResp \in ReplayedDigests)
       => /\ last.op = "send" /\ last.what = "ERR"
          /\ au.ret # "true"
          /\ au.computedHash \in {<<>>, ExpectedDigest}

\* on the second connection the digest for another salt was answered ERR
C33_Witness ==
  /\ conn = 2
  /\ pc = "auth_return"
  /\ Answered
  /\ au.rxResp \in ReplayedDigests
  /\ au.computedHash = ExpectedDigest
  /\ last.what = "ERR" /\ last.ret = 3
  /\ au.ret = "false"

(***************************************************************************)
(* The server with every blocking call of a session returning              *)
(***************************************************************************)

\* Each recv a session blocks in eventually returns (bytes, 0 or an error),
\* and handleClient goes on once authenticate or processVectors has returned.
\* Nothing is assumed about accept: no further client need ever connect.
SessionFairness ==
  /\ WF_vars(LoginNotReceived \/ LoginReceived)
  /\ WF_vars(ResponseNotReceived \/ ResponseReceived)
  /\ WF_vars(HandleClientAuth)
  /\ WF_vars(ReadCount)
  /\ WF_vars(ReadSize)
  /\ WF_vars(ReadData)
  /\ WF_vars(HandleClientClose)

SpecFair == Init /\ [][Next]_vars /\ SessionFairness

\* C34: if every blocking read and write of the connection eventually
\* returns, every session eventually ends with its socket closed and the
\* dispatcher back in accept, whatever count and sizes the peer declares.
\* (A send that raises SIGPIPE never returns; a session that ends so is
\* outside the assumption.)
C34_SessionEventuallyEnds ==
  (pc \in SessionPcs) ~> \/ pc = "accept" /\ conn \notin open
                         \/ pc = "killed_SIGPIPE"

\* what holds of every session under the same assumption: it ends, either
\* closed with the dispatcher back in accept or with the process itself
C34_SessionEndsOrProcessDies ==
  (pc \in SessionPcs) ~> ((pc = "accept" /\ conn \notin open) \/ pc \in DeadPcs)

====
